---- MODULE Spec2Model ----
(***************************************************************************)
(* Model of src/src/extension.ts: the ee-first event race (first,         *)
(* listener) and the image check of registerProvider built on it.         *)
(*                                                                         *)
(* Two specifications share the emitter and race operators:               *)
(*   Spec       one race started by first(stuff, done) over shared        *)
(*              emitters, with foreign listeners, nested emissions and    *)
(*              calls of the controller's cancel;                         *)
(*   SpecCheck  invocations of the provider's check, each with its own    *)
(*              cancel/done emitters, timer, token and promise.           *)
(*                                                                         *)
(* Emitters are Node's EventEmitter: on() appends a listener, emit()      *)
(* calls a copy of the listener list taken when the emission starts,      *)
(* removeListener() removes the most recently added occurrence of a       *)
(* function. The 'newListener'/'removeListener' meta-events and the throw *)
(* of an unhandled 'error' emission are not modelled.                     *)
(***************************************************************************)
EXTENDS Integers, Sequences, FiniteSets, TLC

\* ------------------------------------------------------------------ bounds
\* M: the largest total number of (source, event-name) entries in stuff
MaxWatched == 2
\* the deepest nesting of emit() calls (an emit made from inside a listener)
MaxDepth == 2
\* invocations of the provider's check
NumChecks == 2

Sources == {"A", "B"}
Events == {"a", "error"}
Payloads == {<<>>, <<"x">>}
\* identities of the listeners that code other than the race registers
Foreigners == {1}

Null == "null"
Undefined == "undefined"

\* ------------------------------------------------------------ EventEmitter
\* ee.on(event, fn)
On(ls, ee, event, fn) == [ls EXCEPT ![ee][event] = Append(@, fn)]

RECURSIVE LastIndexOf(_, _, _)
LastIndexOf(list, fn, i) ==
    IF i = 0 THEN 0
    ELSE IF list[i] = fn THEN i
    ELSE LastIndexOf(list, fn, i - 1)

RemoveAt(list, p) == SubSeq(list, 1, p - 1) \o SubSeq(list, p + 1, Len(list))

\* a removeListener that drops the newest listener of the event, whoever owns it
RemoveListenerAny(ls, ee, event, fn) ==
    LET n == Len(ls[ee][event])
    IN  IF n = 0 THEN ls ELSE [ls EXCEPT ![ee][event] = RemoveAt(@, n)]

\* a removal by ee.removeAllListeners(event)
RemoveAllListeners(ls, ee, event, fn) == [ls EXCEPT ![ee][event] = <<>>]

\* ee.removeListener(event, fn)
RemoveListener(ls, ee, event, fn) ==
    LET p == LastIndexOf(ls[ee][event], fn, Len(ls[ee][event]))
    IN  IF p = 0 THEN ls ELSE [ls EXCEPT ![ee][event] = RemoveAt(@, p)]

\* ------------------------------------------------------------------- first
\* listener(event, done): a fresh function object per call; id is its identity
listener(event, done, id) ==
    [kind |-> "onevent", event |-> event, done |-> done, id |-> id]

\* a listener some other code registered on a source
Foreign(n) == [kind |-> "foreign", event |-> "", done |-> 0, id |-> n]

\* an onevent that takes the first argument for an error whatever the event
oneventErrAlways(fn, this, args) ==
    [err   |-> IF Len(args) > 0 THEN args[1] ELSE Undefined,
     ee    |-> this,
     event |-> fn.event,
     args  |-> args]

\* the body of onevent: the arguments it hands to done
onevent(fn, this, args) ==
    [err   |-> IF fn.event = "error"
               THEN (IF Len(args) > 0 THEN args[1] ELSE Undefined)
               ELSE Null,
     ee    |-> this,
     event |-> fn.event,
     args  |-> args]

\* the inner loop with every listener closing over the entry's last event name
RECURSIVE AttachNamesLastEvent(_, _, _, _)
AttachNamesLastEvent(arr, j, race, acc) ==
    IF j > Len(arr) THEN acc
    ELSE LET ee    == arr[1]
             event == arr[j]
             fn    == listener(arr[Len(arr)], race, Len(acc.cleanups) + 1)
         IN  AttachNamesLastEvent(arr, j + 1, race,
                 [acc EXCEPT !.ls = On(@, ee, event, fn),
                             !.cleanups = Append(@, [ee |-> ee, event |-> event, fn |-> fn])])

\* for (j = 1; j < arr.length; j++): arr[0] is TLA+'s arr[1]
RECURSIVE AttachNames(_, _, _, _)
AttachNames(arr, j, race, acc) ==
    IF j > Len(arr) THEN acc
    ELSE LET ee    == arr[1]
             event == arr[j]
             fn    == listener(event, race, Len(acc.cleanups) + 1)
         IN  AttachNames(arr, j + 1, race,
                 [acc EXCEPT !.ls = On(@, ee, event, fn),
                             !.cleanups = Append(@, [ee |-> ee, event |-> event, fn |-> fn])])

\* the outer loop with an inner loop that starts at j = 2
RECURSIVE AttachAllFromSecondName(_, _, _, _)
AttachAllFromSecondName(elems, i, race, acc) ==
    IF i > Len(elems) THEN acc
    ELSE LET arr == elems[i]
         IN  IF ~arr.isArray \/ Len(arr.elems) < 2
             THEN [acc EXCEPT !.threw = TRUE]
             ELSE AttachAllFromSecondName(elems, i + 1, race,
                                          AttachNames(arr.elems, 3, race, acc))

\* for (i = 0; i < stuff.length; i++)
RECURSIVE AttachAll(_, _, _, _)
AttachAll(elems, i, race, acc) ==
    IF i > Len(elems) THEN acc
    ELSE LET arr == elems[i]
         IN  IF ~arr.isArray \/ Len(arr.elems) < 2
             THEN [acc EXCEPT !.threw = TRUE]
             ELSE AttachAll(elems, i + 1, race, AttachNames(arr.elems, 2, race, acc))

\* first(stuff, done) up to its return or throw
first(stuff, race, ls) ==
    IF ~stuff.isArray
    THEN [threw |-> TRUE, ls |-> ls, cleanups |-> <<>>]
    ELSE AttachAll(stuff.elems, 1, race, [threw |-> FALSE, ls |-> ls, cleanups |-> <<>>])

\* a cleanup whose loop stops one entry short
RECURSIVE cleanupButLast(_, _, _)
cleanupButLast(cl, i, ls) ==
    IF i >= Len(cl) THEN ls
    ELSE cleanupButLast(cl, i + 1, RemoveListener(ls, cl[i].ee, cl[i].event, cl[i].fn))

\* function cleanup ()
RECURSIVE cleanup(_, _, _)
cleanup(cl, i, ls) ==
    IF i > Len(cl) THEN ls
    ELSE cleanup(cl, i + 1, RemoveListener(ls, cl[i].ee, cl[i].event, cl[i].fn))

\* a callback that applies done before it cleans up
callbackDoneFirst(cl, ls) == ls

\* function callback (): the listeners as done.apply(null, arguments) finds
\* them, cleanup() having run
callback(cl, ls) == cleanup(cl, 1, ls)

\* ------------------------------------------------------------------ inputs
NotArray == [isArray |-> FALSE, elems |-> <<>>]
Arr(s) == [isArray |-> TRUE, elems |-> s]

NameSeqs(n) == [1..n -> Events]
Entries(n) == {Arr(<<s>> \o names) : s \in Sources, names \in NameSeqs(n)}

RECURSIVE StuffLists(_)
StuffLists(m) ==
    {<<>>} \cup
    UNION {{<<e>> \o rest : e \in Entries(n), rest \in StuffLists(m - n)} : n \in 1..m}

BadEntries == {NotArray, Arr(<<>>)} \cup {Arr(<<s>>) : s \in Sources}

Inputs ==
    {NotArray}
    \cup {Arr(l) : l \in StuffLists(MaxWatched)}
    \cup {Arr(l \o <<b>>) : l \in StuffLists(MaxWatched), b \in BadEntries}

\* the race over 3 sources with 2 event names each (6 listeners)
Emitters == Sources \cup {"C"}
Scenario ==
    Arr(<< Arr(<<"A", "a", "error">>),
           Arr(<<"B", "a", "error">>),
           Arr(<<"C", "a", "error">>) >>)

Malformed(stuff) ==
    \/ ~stuff.isArray
    \/ \E i \in 1..Len(stuff.elems) :
          ~stuff.elems[i].isArray \/ Len(stuff.elems[i].elems) < 2

\* ------------------------------------------------------------------- state
VARIABLES
    stuff,       \* the argument of first()
    phase,       \* "idle", "started" (first returned the thunk), "threw"
    listeners,   \* [source -> [event -> sequence of listener functions]]
    cleanups,    \* the race's cleanups array
    calls,       \* number of invocations of done
    winner,      \* the arguments of the first invocation of done
    stack,       \* emit() calls in progress, innermost last
    foreigns,    \* the foreign listeners registered so far
    delivered,   \* history: the emission that first reached a race listener
    cancelled,   \* history: cancel() ran while done had not been invoked
    redundant,   \* history: cancel() ran on a race already settled
    curDone,     \* the callback held by first's variable done: "done" or "fn"
    fnCalls,     \* number of invocations that went to fn
    early,       \* history: thunk(fn) ran while the race was not settled
    checks       \* SpecCheck: the state of each invocation of check

raceVars == <<stuff, phase, cleanups, calls, winner, stack, foreigns,
              delivered, cancelled, redundant, curDone, fnCalls, early>>
vars == <<stuff, phase, listeners, cleanups, calls, winner, stack, foreigns,
          delivered, cancelled, redundant, curDone, fnCalls, early, checks>>

NoCall == [err |-> Null, ee |-> "none", event |-> "none", args |-> <<>>]
NoEmission == [ee |-> "none", event |-> "none", args |-> <<>>]

InitRace ==
    /\ stuff = Arr(<<>>)
    /\ phase = "idle"
    /\ cleanups = <<>>
    /\ calls = 0
    /\ winner = NoCall
    /\ stack = <<>>
    /\ foreigns = {}
    /\ delivered = NoEmission
    /\ cancelled = FALSE
    /\ redundant = FALSE
    /\ curDone = "done"
    /\ fnCalls = 0
    /\ early = FALSE

Checks == 1..NumChecks

\* an invocation of check that the host has not made yet
IdleCheck ==
    [provider |-> 0,
     token    |-> "unset",
     timer    |-> "unset",
     delay    |-> 0,
     result   |-> [checks |-> <<>>],
     promise  |-> [state |-> "none", value |-> [checks |-> <<>>]],
     resolves |-> 0,
     calls    |-> 0,
     cleanups |-> <<>>,
     log      |-> <<>>]

Init ==
    /\ InitRace
    /\ listeners = [s \in Emitters |-> [e \in Events |-> <<>>]]
    /\ checks = [i \in Checks |-> IdleCheck]

Settled == calls > 0 \/ cancelled

Top == stack[Len(stack)]

\* ----------------------------------------------------------------- actions
\* a task calls first(s, done)
Start(s) ==
    /\ phase = "idle"
    /\ stack = <<>>
    /\ LET r == first(s, 1, listeners)
       IN  /\ stuff' = s
           /\ phase' = IF r.threw THEN "threw" ELSE "started"
           /\ listeners' = r.ls
           /\ cleanups' = r.cleanups
    /\ UNCHANGED <<calls, winner, stack, foreigns, delivered, cancelled, redundant,
                   curDone, fnCalls, early, checks>>

\* other code registers its own listener on a source
ForeignOn(f, ee, event) ==
    /\ stack = <<>>
    /\ f \notin foreigns
    /\ foreigns' = foreigns \cup {f}
    /\ listeners' = On(listeners, ee, event, Foreign(f))
    /\ UNCHANGED <<stuff, phase, cleanups, calls, winner, stack, delivered,
                   cancelled, redundant, curDone, fnCalls, early, checks>>

\* The emission in progress calls the next listener of its copy of the list.
\* A race listener runs onevent -> callback -> cleanup(); done.apply(null,
\* arguments); a foreign listener runs code of its own. st is the stack with
\* the emission's frame on top and at least one listener left in it.
Invoke(st) ==
    LET d   == Len(st)
        top == st[d]
        fn  == Head(top.rest)
    IN  IF fn.kind = "onevent"
        THEN /\ listeners' = callback(cleanups, listeners)
             /\ calls' = calls + 1
             /\ fnCalls' = IF curDone = "fn" THEN fnCalls + 1 ELSE fnCalls
             /\ winner' = IF calls = 0 THEN onevent(fn, top.ee, top.args) ELSE winner
             /\ delivered' = IF delivered = NoEmission
                             THEN [ee |-> top.ee, event |-> top.event, args |-> top.args]
                             ELSE delivered
             /\ stack' = [st EXCEPT ![d].rest = Tail(@), ![d].body = "done"]
        ELSE /\ stack' = [st EXCEPT ![d].rest = Tail(@), ![d].body = "foreign"]
             /\ UNCHANGED <<listeners, calls, fnCalls, winner, delivered>>

\* ee.emit(event, ...args), from a task or from inside a listener or done:
\* the emission works on a copy of the listener list and calls its first
\* listener at once
Emit(ee, event, args) ==
    /\ Len(stack) < MaxDepth
    /\ listeners[ee][event] # <<>>
    /\ Invoke(Append(stack, [ee |-> ee, event |-> event, args |-> args,
                             rest |-> listeners[ee][event], body |-> "none"]))
    /\ UNCHANGED <<stuff, phase, cleanups, foreigns, cancelled, redundant, curDone,
                   early, checks>>

\* the running listener (or done) returns: the emission calls its next
\* listener, or emit() returns after the last one
Return ==
    /\ stack # <<>>
    /\ IF Top.rest = <<>>
       THEN /\ stack' = SubSeq(stack, 1, Len(stack) - 1)
            /\ UNCHANGED <<listeners, calls, fnCalls, winner, delivered>>
       ELSE Invoke(stack)
    /\ UNCHANGED <<stuff, phase, cleanups, foreigns, cancelled, redundant, curDone,
                   early, checks>>

\* thunk.cancel(), from a task or from inside a listener or done
Cancel ==
    /\ phase = "started"
    /\ listeners' = cleanup(cleanups, 1, listeners)
    /\ cancelled' = (cancelled \/ calls = 0)
    /\ redundant' = (redundant \/ Settled)
    /\ UNCHANGED <<stuff, phase, cleanups, calls, winner, stack, foreigns, delivered,
                   curDone, fnCalls, early, checks>>

\* thunk(fn), from a task or from inside a listener or done: done = fn
Thunk ==
    /\ phase = "started"
    /\ curDone = "done"
    /\ curDone' = "fn"
    /\ early' = ~Settled
    /\ UNCHANGED <<stuff, phase, listeners, cleanups, calls, winner, stack, foreigns,
                   delivered, cancelled, redundant, fnCalls, checks>>

Next ==
    \/ phase = "idle" /\ \E s \in Inputs \cup {Scenario} : Start(s)
    \/ \E f \in Foreigners, ee \in Sources, event \in Events : ForeignOn(f, ee, event)
    \/ \E ee \in Emitters, event \in Events, args \in Payloads : Emit(ee, event, args)
    \/ Return
    \/ Cancel

Spec == Init /\ [][Next]_vars

\* the race whose caller may also replace the callback through the controller;
\* under Spec the callback stays the one passed to first()
NextThunk ==
    \/ Next
    \/ Thunk

SpecThunk == Init /\ [][NextThunk]_vars

\* ------------------------------------------------------- properties (Spec)
RaceListeners(ee, event) ==
    {i \in 1..Len(listeners[ee][event]) : listeners[ee][event][i].kind = "onevent"}

NoRaceListener == \A ee \in Emitters, event \in Events : RaceListeners(ee, event) = {}

\* C1: done (onSettle) is invoked at most once per race, whatever emissions
\* follow the first one.
C1_AtMostOnce == calls <= 1

\* C2: once the race has settled, by a winning event or by cancel(), none of
\* the listeners it attached is registered on any source.
C2_FullCleanup == Settled => NoRaceListener

C2_Witness ==
    /\ phase = "started"
    /\ calls = 1
    /\ Len(cleanups) = 2
    /\ cleanups[1].ee # cleanups[2].ee

\* C3: once cancel() has run on a race whose done was not yet invoked, done
\* is never invoked.
C3_CancelFinal == cancelled => calls = 0

\* C4: a cancel() on a settled race (after a win, or after a cancel) invokes
\* done no further time and leaves every source's listeners as they were.
C4_IdempotentCancel ==
    [][(Settled /\ Cancel) =>
          (listeners' = listeners /\ calls' = calls /\ winner' = winner)]_vars

C4_Witness ==
    /\ redundant
    /\ calls = 1
    /\ \E ee \in Sources, event \in Events :
          /\ listeners[ee][event] # <<>>
          /\ \E i \in 1..Len(cleanups) : cleanups[i].ee = ee /\ cleanups[i].event = event

\* C5: when first() throws on its input, no listener of the race is attached
\* to any source.
C5_NoPartialAttachment ==
    [][(phase = "idle" /\ phase' = "threw") => NoRaceListener']_vars

\* C6: on malformed input first() throws, and done is never invoked for that
\* race.
C6_RejectedNeverSettles ==
    (phase # "idle" /\ Malformed(stuff)) => (phase = "threw" /\ calls = 0)

\* C7: the source and event reported to done are those of the emission that
\* first reached a listener of the race, wherever they stand in stuff.
C7_WinnerIsFirstDelivered ==
    calls > 0 => (winner.ee = delivered.ee /\ winner.event = delivered.event)

C7_Witness ==
    /\ calls = 1
    /\ Len(cleanups) = 2
    /\ cleanups[1].ee = "A"
    /\ cleanups[2].ee = "B"
    /\ winner.ee = "B"
    /\ delivered.ee = "B"

\* C11: while done (onSettle) runs, every listener of the race is already
\* detached from every source, and an emission made from inside done reaches
\* no listener of the race.
C11_CleanupPrecedesCallback ==
    \A d \in 1..Len(stack) :
        stack[d].body = "done"
           => /\ NoRaceListener
              /\ d < Len(stack)
                    => /\ stack[d + 1].body = "foreign"
                       /\ \A k \in 1..Len(stack[d + 1].rest) :
                              stack[d + 1].rest[k].kind = "foreign"

\* done is running for the winning event and has emitted a watched event,
\* which reached only the foreign listener
C11_Witness ==
    /\ Len(stack) = 2
    /\ calls = 1
    /\ stack[1].body = "done"
    /\ stack[2].body = "foreign"
    /\ \E i \in 1..Len(cleanups) :
          cleanups[i].ee = stack[2].ee /\ cleanups[i].event = stack[2].event

\* the places of stuff that name event on ee
Occurrences(ee, event) ==
    {<<i, j>> \in (1..Len(stuff.elems)) \X (2..(MaxWatched + 2)) :
        /\ j <= Len(stuff.elems[i].elems)
        /\ stuff.elems[i].elems[1] = ee
        /\ stuff.elems[i].elems[j] = event}

JustStarted == phase = "started" /\ ~Settled

\* C12 as claimed: after first() has returned, every (source, event-name)
\* combination named in stuff has exactly one listener of the race, however
\* often stuff names it.
C12_OnePerCombination ==
    JustStarted =>
        \A ee \in Emitters, event \in Events :
            Cardinality(RaceListeners(ee, event)) =
                (IF Occurrences(ee, event) = {} THEN 0 ELSE 1)

\* C12 as amended: after first() has returned, the race has one listener, a
\* function of its own, for every place of stuff that names an event: a
\* combination named k times has k listeners of the race.
C12_OnePerOccurrence ==
    JustStarted =>
        /\ \A ee \in Emitters, event \in Events :
               Cardinality(RaceListeners(ee, event)) = Cardinality(Occurrences(ee, event))
        /\ \A i, j \in 1..Len(cleanups) : i # j => cleanups[i].fn # cleanups[j].fn
        /\ \A i \in 1..Len(cleanups) :
               \E k \in RaceListeners(cleanups[i].ee, cleanups[i].event) :
                   listeners[cleanups[i].ee][cleanups[i].event][k] = cleanups[i].fn

C12_Witness ==
    /\ JustStarted
    /\ \E ee \in Emitters, event \in Events :
          /\ Cardinality(Occurrences(ee, event)) = 2
          /\ Cardinality(RaceListeners(ee, event)) = 2

\* C13: done receives (err, ee, event, args) of the winning emission: the
\* emitter that fired, the watched name that fired, exactly the emission's
\* arguments, and err is the first argument when the name is 'error' and
\* null for every other name.
C13_WinnerReporting ==
    calls > 0 =>
        /\ winner.ee = delivered.ee
        /\ winner.event = delivered.event
        /\ winner.args = delivered.args
        /\ winner.err = (IF delivered.event = "error"
                         THEN (IF delivered.args = <<>> THEN Undefined ELSE delivered.args[1])
                         ELSE Null)

\* the race over 3 sources with 2 names each, the 4th of the 6 events fired
C13_Witness ==
    /\ stuff = Scenario
    /\ Len(cleanups) = 6
    /\ calls = 1
    /\ winner = [err |-> "x", ee |-> cleanups[4].ee, event |-> cleanups[4].event,
                 args |-> <<"x">>]
    /\ NoRaceListener

\* the listeners of a list that the race did not register, in their order
IsForeign(fn) == fn.kind = "foreign"
ForeignSeq(list) == SelectSeq(list, IsForeign)

Finding(name, status, severity) == [name |-> name, status |-> status, severity |-> severity]

Data1 ==
    << Finding("check 1", "failed", "medium"),
       Finding("check 2", "failed", "high") >>
Timeout1 == 2000

Data2 ==
    << Finding("USER directive", "failed", "critical"),
       Finding("USER directive", "failed", "high"),
       Finding("Base image", "failed", "medium"),
       Finding("result check 2", "failed", "low"),
       Finding("check 3", "success", "none") >>
Timeout2 == 5000

Providers == {1, 2}
ProviderData(p) == IF p = 1 THEN Data1 ELSE Data2
ProviderTimeout(p) == IF p = 1 THEN Timeout1 ELSE Timeout2

\* what the host passes as token: none, a token that is cancelled later (or
\* never), or a token that runs the callback inside onCancellationRequested
Tokens == {"none", "live", "sync"}

\* one cancelEmitter made outside check and shared by every invocation
cancelEmitterShared(i) == <<1, "cancelEmitter">>

cancelEmitter(i) == <<i, "cancelEmitter">>
doneEmitter(i) == <<i, "doneEmitter">>
CheckEmitters == {cancelEmitter(i) : i \in Checks} \cup {doneEmitter(i) : i \in Checks}
CheckEvents == {"cancel", "done"}

\* resolve(value) of the promise of one invocation
resolve(c, value) ==
    [c EXCEPT !.resolves = @ + 1,
              !.promise = IF @.state = "pending"
                          THEN [state |-> "resolved", value |-> value]
                          ELSE @]

\* a done that takes every event for the timer's
onSettleAlwaysResult(c, call) == resolve(c, c.result)

\* a done that takes every event for a cancellation
onSettleAlwaysEmpty(c, call) == resolve(c, [checks |-> <<>>])

\* a done that rejects the promise on cancellation
onSettleRejectsCancel(c, call) ==
    IF call.event = "done"
    THEN resolve(c, c.result)
    ELSE [c EXCEPT !.promise = IF @.state = "pending"
                               THEN [state |-> "rejected", value |-> [checks |-> <<>>]]
                               ELSE @]

\* the function handed to first() as done
onSettle(c, call) ==
    IF call.event = "done"
    THEN resolve(c, c.result)
    ELSE resolve(c, [checks |-> <<>>])

\* ee.emit(event) of an invocation's emitter, to its end: every listener of
\* the copy runs onevent -> callback -> cleanup(); done.apply(null, arguments)
\* of the race that created it (fn.done is that race's callback)
RECURSIVE emit(_, _, _, _)
emit(rest, this, cs, ls) ==
    IF rest = <<>> THEN [cs |-> cs, ls |-> ls]
    ELSE LET fn   == Head(rest)
             r    == fn.done
             call == onevent(fn, this, <<>>)
         IN  emit(Tail(rest), this,
                  [cs EXCEPT ![r] = onSettle([@ EXCEPT !.calls = @ + 1], call)],
                  callback(cs[r].cleanups, ls))

\* the host calls check(_image, token) of provider p
Check(i, p, tok) ==
    /\ checks[i].provider = 0
    /\ \A j \in 1..(i - 1) : checks[j].provider # 0
    /\ LET \* token?.onCancellationRequested(() => cancelEmitter.emit('cancel'))
           sub == IF tok = "sync"
                  THEN emit(listeners[cancelEmitter(i)]["cancel"], cancelEmitter(i),
                            [checks EXCEPT ![i].log = <<"cancel-sync">>], listeners)
                  ELSE [cs |-> checks, ls |-> listeners]
           \* return new Promise((resolve) => first([...], function ...))
           r == first(Arr(<< Arr(<<cancelEmitter(i), "cancel">>),
                             Arr(<<doneEmitter(i), "done">>) >>), i, sub.ls)
       IN  /\ listeners' = r.ls
           /\ checks' = [sub.cs EXCEPT ![i] =
                  [@ EXCEPT !.provider = p,
                            !.token = IF tok = "sync" THEN "fired" ELSE tok,
                            !.result = [checks |-> ProviderData(p)],
                            !.timer = "armed",
                            !.delay = ProviderTimeout(p),
                            !.promise = [state |-> "pending", value |-> [checks |-> <<>>]],
                            !.cleanups = r.cleanups]]
    /\ UNCHANGED raceVars

\* the token's cancellation is requested: the callback registered by check runs
CancelRequested(i) ==
    /\ checks[i].token = "live"
    /\ LET r == emit(listeners[cancelEmitter(i)]["cancel"], cancelEmitter(i),
                     [checks EXCEPT ![i].token = "fired", ![i].log = Append(@, "cancel")],
                     listeners)
       IN  /\ listeners' = r.ls
           /\ checks' = r.cs
    /\ UNCHANGED raceVars

\* the timer set by check fires: doneEmitter.emit('done')
TimerFires(i) ==
    /\ checks[i].timer = "armed"
    /\ LET r == emit(listeners[doneEmitter(i)]["done"], doneEmitter(i),
                     [checks EXCEPT ![i].timer = "fired", ![i].log = Append(@, "timer")],
                     listeners)
       IN  /\ listeners' = r.ls
           /\ checks' = r.cs
    /\ UNCHANGED raceVars

InitCheck ==
    /\ InitRace
    /\ listeners = [e \in CheckEmitters |-> [ev \in CheckEvents |-> <<>>]]
    /\ checks = [i \in Checks |-> IdleCheck]

NextCheck ==
    \/ \E i \in Checks, p \in Providers, tok \in Tokens : Check(i, p, tok)
    \/ \E i \in Checks : CancelRequested(i)
    \/ \E i \in Checks : TimerFires(i)

SpecCheck == InitCheck /\ [][NextCheck]_vars

\* the event loop runs the callback of every timer that was set
SpecCheckFair == SpecCheck /\ \A i \in Checks : WF_vars(TimerFires(i))

\* -------------------------------------------------- properties (SpecCheck)
\* the state of the per-invocation state machine
State(i) ==
    IF checks[i].promise.state = "none" THEN "Idle"
    ELSE IF checks[i].promise.state = "pending" THEN "Pending"
    ELSE "Settled"

Configured(i) == [checks |-> ProviderData(checks[i].provider)]
Empty == [checks |-> <<>>]

\* C8: when the timer fires and no cancellation was delivered before it, the
\* promise is resolved with exactly the configured findings; and the promise
\* never holds the configured findings unless the timer has fired.
TimerBeforeCancel(i) ==
    \E k \in 1..Len(checks[i].log) :
        /\ checks[i].log[k] = "timer"
        /\ \A j \in 1..(k - 1) : checks[i].log[j] # "cancel"

C8_PassThroughOnTimeout ==
    \A i \in Checks :
        /\ TimerBeforeCancel(i)
              => (checks[i].promise = [state |-> "resolved", value |-> Configured(i)])
        /\ (checks[i].promise.state = "resolved" /\ checks[i].promise.value = Configured(i))
              => checks[i].timer = "fired"

C8_Witness ==
    \E i \in Checks :
        /\ checks[i].provider = 2
        /\ checks[i].log = <<"timer">>
        /\ checks[i].promise.value.checks = Data2

C10_StateMachine ==
    [][\A i \in Checks :
          /\ State(i) = "Idle" => State(i)' \in {"Idle", "Pending"}
          /\ State(i) = "Pending" => State(i)' \in {"Pending", "Settled"}
          /\ (State(i) = "Pending" /\ State(i)' = "Settled")
                => /\ checks[i]'.resolves = 1
                   /\ \/ checks[i]'.timer = "fired" /\ checks[i].timer = "armed"
                      \/ checks[i]'.token = "fired" /\ checks[i].token = "live"
          /\ State(i) = "Settled"
                => /\ checks[i]'.promise = checks[i].promise
                   /\ checks[i]'.resolves = 1
                   /\ checks[i]'.calls = 1]_vars

C10_Witness ==
    \E i \in Checks :
        /\ checks[i].log = <<"timer", "cancel">>
        /\ State(i) = "Settled"
        /\ checks[i].promise.value = Configured(i)

\* C15: whenever the token ran the cancellation callback before the timer
\* fired, inside onCancellationRequested itself included, the check is
\* resolved with an empty findings list.
CancelRanFirst(i) ==
    checks[i].log # <<>> /\ checks[i].log[1] \in {"cancel", "cancel-sync"}

C15_CancellationNeverLost ==
    \A i \in Checks :
        (CancelRanFirst(i) /\ State(i) = "Settled") => checks[i].promise.value = Empty

\* C16: under fair scheduling of the timer task every invocation of check
\* reaches Settled, and its promise is never rejected, whatever token the
\* host passed and whenever cancellation is requested.
C16_SettlesUnrejected ==
    /\ [](\A i \in Checks : checks[i].promise.state # "rejected")
    /\ \A i \in Checks : (State(i) = "Pending") ~> (State(i) = "Settled")

\* one invocation without a token and one whose token ran the callback at
\* once, both settled
C16_Witness ==
    /\ checks[1].token = "none"
    /\ State(1) = "Settled"
    /\ checks[2].log = <<"cancel-sync", "timer">>
    /\ State(2) = "Settled"
    /\ checks[2].promise.state = "resolved"

\* a step changes invocation i: its state, or the listeners of its emitters
Touched(i) ==
    \/ checks[i]' # checks[i]
    \/ listeners'[cancelEmitter(i)] # listeners[cancelEmitter(i)]
    \/ listeners'[doneEmitter(i)] # listeners[doneEmitter(i)]

\* C17: invocations pending at once do not interfere: no step (a call of
\* check, a timer firing, a cancellation) changes the state, the result or the
\* listeners of two invocations, and the value an invocation settles with is
\* decided by the order of its own timer and cancellation callbacks alone.
C17_Independence ==
    /\ [][\A i, j \in Checks : i # j => ~(Touched(i) /\ Touched(j))]_vars
    /\ [](\A i \in Checks :
             State(i) = "Settled"
                => checks[i].promise.value =
                      (IF TimerBeforeCancel(i) THEN Configured(i) ELSE Empty))

\* invocation 2, of the other provider, was called while invocation 1 was
\* pending and is settled by its own cancellation; 1 is still pending
C17_Witness ==
    /\ State(1) = "Pending"
    /\ checks[1].token = "live"
    /\ State(2) = "Settled"
    /\ checks[2].log = <<"cancel">>
    /\ checks[1].provider # checks[2].provider

\* C18: after thunk(fn) ran on a race that was not settled, every invocation
\* goes to fn and none to the callback passed to first(), and fn is invoked
\* at most once.
C18_Replacement ==
    early => (calls = fnCalls /\ fnCalls <= 1)

====
